---- MODULE Spec2Model ----
(***************************************************************************)
(* eth-encrypt: file encryption with a key derived from a signature over a *)
(* random note.  The module models                                         *)
(*   - the byte-level library functions of src/index.js (key derivation,   *)
(*     whole-buffer encrypt/decrypt, note extraction), exercised by the    *)
(*     specification SpecLib, and                                          *)
(*   - one encrypt or decrypt operation of the command line front end      *)
(*     (src/cli.js) down to the stream pipeline of src/index.js and        *)
(*     src/utils/fs-utils.js, exercised by the specification Spec.         *)
(*                                                                         *)
(* A byte is a record [v, mask]: v is the byte's plain value and mask the  *)
(* set of AES-CTR keystream bytes XORed onto it.  A keystream byte is the  *)
(* atom <<key, iv, position>>; XORing the same atom twice cancels it.      *)
(* Strings are sequences of one-character strings.                         *)
(***************************************************************************)
EXTENDS Integers, Sequences, FiniteSets, TLC

VARIABLES
    args,       \* SpecLib: the arguments of the library calls
    ret,        \* SpecLib: what each library call returned
    op,         \* Spec: the operation: action type and note seed
    pc,         \* Spec: where the operation stands
    thrown,     \* Spec: the error thrown to the caller, or "none"
    note,       \* Spec: the encryption note (hex string) sent to the signer
    sig,        \* Spec: the signer's reply
    fs,         \* Spec: input file, output file and open descriptors
    cipher,     \* Spec: the cipher or decipher object, or NoCipher
    prependIV,  \* Spec: the PrependInitializationVector transform
    rs,         \* Spec: the read stream
    ws,         \* Spec: the write stream
    log         \* Spec: what the front end has printed

vars == <<args, ret, op, pc, thrown, note, sig, fs, cipher, prependIV, rs, ws, log>>
libVars == <<args, ret>>
opVars == <<op, pc, thrown, note, sig, fs, cipher, prependIV, rs, ws, log>>

----------------------------------------------------------------------------
(* Configuration, src/utils/config.js *)

ENCRYPTION_KEY_SIZE == 32
ENCRYPTION_IV_SIZE == 16

(* Bounds of the model *)

MaxPlainLen == 2    \* longest plaintext, in bytes
MaxSeed == 1        \* signatures and notes are generated from seeds 0..MaxSeed
MaxShort == 1       \* signatures up to MaxShort hex characters short of a key
MaxExtra == 1       \* signatures up to MaxExtra hex characters beyond a key

----------------------------------------------------------------------------
(* Bytes, buffers and strings *)

Min(a, b) == IF a < b THEN a ELSE b

Plain(b) == [v |-> b, mask |-> {}]

SymDiff(A, B) == (A \ B) \cup (B \ A)

\* Buffer.prototype.slice(start, end) / String.prototype.substring(start, end),
\* 0-based, end exclusive, clamped to the length
Slice(s, start, end) == SubSeq(s, Min(start, Len(s)) + 1, Min(end, Len(s)))

RECURSIVE Concat(_)
\* Buffer.concat(list)
Concat(list) == IF list = <<>> THEN <<>> ELSE Head(list) \o Concat(Tail(list))

HexDigits == <<"0", "1", "2", "3", "4", "5", "6", "7",
               "8", "9", "a", "b", "c", "d", "e", "f">>
HexDigitsUpper == <<"0", "1", "2", "3", "4", "5", "6", "7",
                    "8", "9", "A", "B", "C", "D", "E", "F">>

\* the value of a hex digit in either case, -1 for any other character
HexVal(c) ==
    IF \E i \in 1..16 : HexDigits[i] = c
    THEN (CHOOSE i \in 1..16 : HexDigits[i] = c) - 1
    ELSE IF \E i \in 1..16 : HexDigitsUpper[i] = c
    THEN (CHOOSE i \in 1..16 : HexDigitsUpper[i] = c) - 1
    ELSE -1

RECURSIVE HexDecode(_)
\* Buffer.from(string, 'hex'): whole pairs of hex digits, up to the first pair
\* that is not hex; a trailing single character is dropped
HexDecode(s) ==
    IF Len(s) < 2 \/ HexVal(s[1]) < 0 \/ HexVal(s[2]) < 0
    THEN <<>>
    ELSE <<Plain(16 * HexVal(s[1]) + HexVal(s[2]))>> \o HexDecode(Tail(Tail(s)))

RECURSIVE HexEncode(_)
\* buffer.toString('hex'): two lower-case digits per byte
HexEncode(buf) ==
    IF buf = <<>> THEN <<>>
    ELSE <<HexDigits[(Head(buf).v \div 16) + 1], HexDigits[(Head(buf).v % 16) + 1]>>
         \o HexEncode(Tail(buf))

\* A JavaScript value that is a string, or a Buffer
JSString(s) == [str |-> s]
JSBuffer(b) == [buf |-> b]

\* Buffer.from(value, 'hex'): decodes a string; copies a Buffer, ignoring the encoding
BufferFrom(x) == IF "buf" \in DOMAIN x THEN x.buf ELSE HexDecode(x.str)

\* String.prototype.replace('0x', ''): removes the first occurrence, wherever it is
Replace0x(s) ==
    LET hits == {i \in 1..(Len(s) - 1) : s[i] = "0" /\ s[i + 1] = "x"}
    IN  IF hits = {} THEN s
        ELSE LET i == CHOOSE j \in hits : \A k \in hits : j <= k
             IN  SubSeq(s, 1, i - 1) \o SubSeq(s, i + 2, Len(s))

----------------------------------------------------------------------------
(* Results of calls that may throw *)

Ok(val) == [ok |-> TRUE, val |-> val, err |-> "none"]
Throw(err) == [ok |-> FALSE, val |-> <<>>, err |-> err]
None == [ok |-> FALSE, val |-> <<>>, err |-> "not called"]

----------------------------------------------------------------------------
(* node:crypto, aes-256-ctr *)

NoCipher == [key |-> <<>>, iv |-> <<>>, pos |-> -1]

\* crypto.createCipheriv / crypto.createDecipheriv for ENCRYPTION_ALGORITHM:
\* the IV must be one block and the key 256 bits, or the call throws
CreateCipheriv(key, iv) ==
    IF Len(iv) # ENCRYPTION_IV_SIZE THEN Throw("ERR_CRYPTO_INVALID_IV")
    ELSE IF Len(key) # ENCRYPTION_KEY_SIZE THEN Throw("ERR_CRYPTO_INVALID_KEYLEN")
    ELSE Ok([key |-> key, iv |-> iv, pos |-> 0])

\* cipher.update(chunk) and decipher.update(chunk): counter mode XORs the next
\* keystream bytes onto the chunk; the output is as long as the input
CipherUpdate(c, chunk) ==
    [i \in 1..Len(chunk) |->
        [v |-> chunk[i].v,
         mask |-> SymDiff(chunk[i].mask, {<<c.key, c.iv, c.pos + i - 1>>})]]

\* the cipher object after update(chunk)
CipherAdvance(c, chunk) == [c EXCEPT !.pos = c.pos + Len(chunk)]

\* cipher.final(): a stream mode holds nothing back
CipherFinal(c) == <<>>

----------------------------------------------------------------------------
(* src/index.js: key derivation and the whole-buffer variant *)

\* a derivation that falls back to a default key of zero bytes
signedEncryptionNoteToKeyDefault(signedEncryptionNote) ==
    [i \in 1..ENCRYPTION_KEY_SIZE |-> Plain(0)]

\* the derivation without the cut to ENCRYPTION_KEY_SIZE bytes
signedEncryptionNoteToKeyUncut(signedEncryptionNote) ==
    HexDecode(Replace0x(signedEncryptionNote))

signedEncryptionNoteToKey(signedEncryptionNote) ==
    LET sanitizedSignature ==
            Slice(Replace0x(signedEncryptionNote), 0, ENCRYPTION_KEY_SIZE * 2)
    IN  HexDecode(sanitizedSignature)

createCipher(encryptionNote, signedEncryptionNote) ==
    LET iv == BufferFrom(encryptionNote)
        encryptionKey == signedEncryptionNoteToKey(signedEncryptionNote)
    IN  CreateCipheriv(encryptionKey, iv)

\* encryptBytes with the note after the ciphertext
encryptBytesNoteLast(data, encryptionNote, signedEncryptionNote) ==
    LET c == CreateCipheriv(signedEncryptionNoteToKey(signedEncryptionNote),
                            BufferFrom(encryptionNote))
    IN  IF ~c.ok THEN Throw(c.err)
        ELSE Ok(Concat(<<CipherUpdate(c.val, data), BufferFrom(encryptionNote)>>))

encryptBytes(data, encryptionNote, signedEncryptionNote) ==
    LET c == createCipher(encryptionNote, signedEncryptionNote)
    IN  IF ~c.ok THEN Throw(c.err)
        ELSE LET encryptedData == CipherUpdate(c.val, data)
                 last == CipherFinal(CipherAdvance(c.val, data))
             IN  Ok(Concat(<<BufferFrom(encryptionNote), encryptedData, last>>))

createDecipher(encryptionNote, signedEncryptionNote) ==
    LET iv == BufferFrom(encryptionNote)
        encryptionKey == signedEncryptionNoteToKey(signedEncryptionNote)
    IN  CreateCipheriv(encryptionKey, iv)

readEncryptionNoteFromEncryptedBytes(data) ==
    LET ivBuffer == Slice(data, 0, ENCRYPTION_IV_SIZE)
    IN  HexEncode(ivBuffer)

\* decryptBytes that deciphers the whole payload, note included
decryptBytesNoSkip(data, signedEncryptionNote) ==
    LET d == CreateCipheriv(signedEncryptionNoteToKey(signedEncryptionNote),
                            Slice(data, 0, ENCRYPTION_IV_SIZE))
    IN  IF ~d.ok THEN Throw(d.err) ELSE Ok(CipherUpdate(d.val, data))

decryptBytes(data, signedEncryptionNote) ==
    LET ivBuffer == Slice(data, 0, ENCRYPTION_IV_SIZE)
        contentBuffer == Slice(data, ENCRYPTION_IV_SIZE, Len(data))
        d == createDecipher(JSBuffer(ivBuffer), signedEncryptionNote)
    IN  IF ~d.ok THEN Throw(d.err)
        ELSE LET decryptedData == CipherUpdate(d.val, contentBuffer)
                 last == CipherFinal(CipherAdvance(d.val, contentBuffer))
             IN  Ok(Concat(<<decryptedData, last>>))

----------------------------------------------------------------------------
(* Inputs: notes, signatures and plaintexts, generated from seeds *)

KeyHexLen == ENCRYPTION_KEY_SIZE * 2

\* n bytes determined by a seed; different seeds differ in every byte
SeedBytes(seed, n) == [i \in 1..n |-> Plain((173 + 90 * seed + 7 * i) % 256)]

\* the raw note of a seed; generateEncryptionNote returns its hex form
NoteBytes(seed) == SeedBytes(seed + 3, ENCRYPTION_IV_SIZE)

generateEncryptionNote(seed) == HexEncode(NoteBytes(seed))

ToUpper(s) == [i \in 1..Len(s) |-> HexDigitsUpper[HexVal(s[i]) + 1]]
ToLower(s) == [i \in 1..Len(s) |-> HexDigits[HexVal(s[i]) + 1]]

\* A signature is described by how it is written: with or without the 0x
\* prefix, in upper or lower case, len hex characters of the seed's bytes,
\* optionally followed by "ff" (only as the second signature of a pair)
SigParams ==
    [prefixed : BOOLEAN, seed : 0..MaxSeed, upper : BOOLEAN,
     len : (KeyHexLen - MaxShort)..(KeyHexLen + MaxExtra), ff : {FALSE}]

\* the hex characters of a signature, after the prefix
SigHex(p) ==
    LET full == HexEncode(SeedBytes(p.seed, (p.len + 1) \div 2))
        body == Slice(IF p.upper THEN ToUpper(full) ELSE full, 0, p.len)
    IN  body \o (IF p.ff THEN <<"f", "f">> ELSE <<>>)

\* the signature as the signer returns it
SigText(p) == (IF p.prefixed THEN <<"0", "x">> ELSE <<>>) \o SigHex(p)

Variants == {"same", "prefixToggled", "caseToggled", "otherSeed", "plusFF", "short"}

\* a second signature, written differently from p
Variant(p, kind) ==
    CASE kind = "same" -> p
      [] kind = "prefixToggled" -> [p EXCEPT !.prefixed = ~p.prefixed]
      [] kind = "caseToggled" -> [p EXCEPT !.upper = ~p.upper]
      [] kind = "otherSeed" -> [p EXCEPT !.seed = (p.seed + 1) % (MaxSeed + 1)]
      [] kind = "plusFF" -> [p EXCEPT !.ff = TRUE]
      [] kind = "short" -> [p EXCEPT !.len = KeyHexLen - 1, !.ff = FALSE]

PlainByteValues == {0, 104}

RECURSIVE SeqsUpTo(_, _)
\* the sequences over S of length at most n
SeqsUpTo(S, n) ==
    IF n = 0 THEN {<<>>}
    ELSE LET shorter == SeqsUpTo(S, n - 1)
         IN  shorter \cup {Append(s, x) : s \in {t \in shorter : Len(t) = n - 1}, x \in S}

Plaintexts == SeqsUpTo({Plain(b) : b \in PlainByteValues}, MaxPlainLen)

----------------------------------------------------------------------------
(* SpecLib: the library functions applied to drawn inputs *)

LibArgs == [data : Plaintexts, noteSeed : 0..MaxSeed, sig : SigParams]

NoArgs == [data |-> <<>>, noteSeed |-> 0,
           sig |-> [prefixed |-> FALSE, seed |-> 0, upper |-> FALSE,
                    len |-> 0, ff |-> FALSE]]

NoRet == [key |-> <<>>, enc |-> None, readNote |-> None, dec |-> <<>>]

NoSig == [status |-> "none", text |-> <<>>]
NoFs == [input |-> <<>>, output |-> <<>>, outputExists |-> FALSE, open |-> {}]
NoPrependIV == [iv |-> <<>>, prepended |-> FALSE, fed |-> <<>>, out |-> <<>>]
NoReadStream == [state |-> "none", start |-> 0, pos |-> 0, piped |-> FALSE]
NoWriteStream == [state |-> "none", buf |-> <<>>, ending |-> FALSE]

OpIdle ==
    /\ op = [action |-> "none", noteSeed |-> 0]
    /\ pc = "idle" /\ thrown = "none" /\ note = <<>> /\ sig = NoSig /\ fs = NoFs
    /\ cipher = NoCipher /\ prependIV = NoPrependIV
    /\ rs = NoReadStream /\ ws = NoWriteStream /\ log = <<>>

InitLib ==
    /\ args \in LibArgs
    /\ ret = NoRet
    /\ OpIdle

\* signedEncryptionNoteToKey applied to the signature and to each way of
\* writing a second one
CallSignedEncryptionNoteToKey ==
    /\ ret.key = <<>>
    /\ ret' = [ret EXCEPT !.key =
                 [k \in Variants |->
                     Ok(signedEncryptionNoteToKey(SigText(Variant(args.sig, k))))]]
    /\ UNCHANGED <<args, opVars>>

CallEncryptBytes ==
    /\ ret.enc = None
    /\ ret' = [ret EXCEPT !.enc =
                 encryptBytes(args.data,
                              JSString(generateEncryptionNote(args.noteSeed)),
                              SigText(args.sig))]
    /\ UNCHANGED <<args, opVars>>

CallReadEncryptionNoteFromEncryptedBytes ==
    /\ ret.enc.ok
    /\ ret.readNote = None
    /\ ret' = [ret EXCEPT !.readNote =
                 Ok(readEncryptionNoteFromEncryptedBytes(ret.enc.val))]
    /\ UNCHANGED <<args, opVars>>

\* decryptBytes applied to the encrypted payload, with the signature that
\* encrypted it and with each second signature
CallDecryptBytes ==
    /\ ret.enc.ok
    /\ ret.dec = <<>>
    /\ ret' = [ret EXCEPT !.dec =
                 [k \in Variants |->
                     decryptBytes(ret.enc.val, SigText(Variant(args.sig, k)))]]
    /\ UNCHANGED <<args, opVars>>

NextLib ==
    \/ CallSignedEncryptionNoteToKey
    \/ CallEncryptBytes
    \/ CallReadEncryptionNoteFromEncryptedBytes
    \/ CallDecryptBytes

SpecLib == InitLib /\ [][NextLib]_vars

----------------------------------------------------------------------------
(* src/utils/fs-utils.js *)

Zeros(n) == [i \in 1..n |-> Plain(0)]

\* fs.readSync(fd, buf, 0, length, position): the bytes the file has in
\* [position, position + length) overwrite the start of buf; the rest of buf
\* keeps its content
ReadInto(buf, file, position, length) ==
    LET got == Slice(file, position, position + length)
    IN  got \o SubSeq(buf, Len(got) + 1, Len(buf))

\* partialReadSync(path, start, end) on a file with content `file`, with the
\* descriptors `open` open before the call; readFails: fs.readSync throws.
\* Returns what the call returns or throws, and the descriptors open after it.
partialReadSync(file, open, start, end, readFails) ==
    IF start < 0 \/ end < 0 \/ end < start \/ end - start > 1073741823
    THEN [ret |-> Throw("bad start, end"), open |-> open]
    ELSE IF end - start = 0
    THEN [ret |-> Throw("ERR_INVALID_ARG_TYPE"), open |-> open]
    ELSE LET buf == Zeros(end - start)
             opened == open \cup {"partialRead"}
         IN  IF readFails
             THEN [ret |-> Throw("EIO"), open |-> opened]
             ELSE [ret |-> Ok(ReadInto(buf, file, start, end - start)),
                   open |-> opened \ {"partialRead"}]

\* stream.Readable.push(chunk) of a byte stream: an empty chunk is dropped
Push(chunk) == IF chunk = <<>> THEN <<>> ELSE <<chunk>>

\* new PrependInitializationVector(iv); fed and out record the chunks given
\* to _transform and the chunks it pushed
NewPrependInitializationVector(iv) ==
    [iv |-> iv, prepended |-> FALSE, fed |-> <<>>, out |-> <<>>]

\* _transform that never sets the flag
PrependTransformFlagUnset(self, chunk) ==
    [self EXCEPT !.fed = Append(self.fed, chunk),
                 !.out = self.out \o Push(self.iv) \o Push(chunk)]

\* PrependInitializationVector._transform(chunk): the transform afterwards
PrependTransform(self, chunk) ==
    LET header == IF ~self.prepended THEN Push(self.iv) ELSE <<>>
    IN  [self EXCEPT !.prepended = TRUE,
                     !.fed = Append(self.fed, chunk),
                     !.out = self.out \o header \o Push(chunk)]

----------------------------------------------------------------------------
(* src/index.js: note extraction from a file and the streaming variant *)

readEncryptionNoteFromFile(file, open, readFails) ==
    LET r == partialReadSync(file, open, 0, ENCRYPTION_IV_SIZE, readFails)
    IN  IF r.ret.ok
        THEN [ret |-> Ok(HexEncode(r.ret.val)), open |-> r.open]
        ELSE r

\* fs.createReadStream(path, {start}): the file is opened later
CreateReadStream(start) ==
    [state |-> "created", start |-> start, pos |-> start, piped |-> FALSE]

\* fs.createWriteStream(path): the file is opened (created) later
CreateWriteStream == [state |-> "created", buf |-> <<>>, ending |-> FALSE]

\* what a call of encryptFileAsStream or decryptFileAsStream leaves behind
Streams(threw, open, r, c, p, w) ==
    [threw |-> threw, open |-> open, rs |-> r, cipher |-> c,
     prependIV |-> p, ws |-> w]

\* encryptFileAsStream with the write stream made before the cipher
encryptFileAsStreamSinkFirst(open, encryptionNote, signedEncryptionNote) ==
    LET c == createCipher(JSString(encryptionNote), signedEncryptionNote)
    IN  IF ~c.ok
        THEN Streams(c.err, open, CreateReadStream(0), NoCipher, NoPrependIV,
                     CreateWriteStream)
        ELSE Streams("none", open, [CreateReadStream(0) EXCEPT !.piped = TRUE],
                     c.val,
                     NewPrependInitializationVector(BufferFrom(JSString(encryptionNote))),
                     CreateWriteStream)

encryptFileAsStream(open, encryptionNote, signedEncryptionNote) ==
    LET readStream == CreateReadStream(0)
        c == createCipher(JSString(encryptionNote), signedEncryptionNote)
    IN  IF ~c.ok
        THEN Streams(c.err, open, readStream, NoCipher, NoPrependIV, NoWriteStream)
        ELSE LET prepend == NewPrependInitializationVector(
                                BufferFrom(JSString(encryptionNote)))
                 writeStream == CreateWriteStream
             IN  Streams("none", open, [readStream EXCEPT !.piped = TRUE],
                         c.val, prepend, writeStream)

decryptFileAsStream(file, open, signedEncryptionNote, readFails) ==
    LET n == readEncryptionNoteFromFile(file, open, readFails)
    IN  IF ~n.ret.ok
        THEN Streams(n.ret.err, n.open, NoReadStream, NoCipher, NoPrependIV,
                     NoWriteStream)
        ELSE LET ivBuffer == BufferFrom(JSString(n.ret.val))
                 readStream == CreateReadStream(ENCRYPTION_IV_SIZE)
                 d == createDecipher(JSBuffer(ivBuffer), signedEncryptionNote)
             IN  IF ~d.ok
                 THEN Streams(d.err, n.open, readStream, NoCipher, NoPrependIV,
                              NoWriteStream)
                 ELSE Streams("none", n.open, [readStream EXCEPT !.piped = TRUE],
                              d.val, NoPrependIV, CreateWriteStream)

\* the callback signEncryptionNote hands to provider.eth.personal.sign:
\* which continuation runs for the reply (err, sig)
signEncryptionNote(reply) == IF reply.sig # <<>> THEN "cb" ELSE "errorCb"

----------------------------------------------------------------------------
(* Spec: one encrypt or decrypt operation of the front end *)

\* the input files are up to MaxTrunc bytes short of a note, or longer
MaxTrunc == 1

FileLens == {0} \cup ((ENCRYPTION_IV_SIZE - MaxTrunc)..(ENCRYPTION_IV_SIZE + MaxPlainLen))

\* an encrypted file holds a note and then as many bytes as the plaintext
DecryptInputs ==
    {Slice(NoteBytes(s) \o d, 0, n) : s \in 0..MaxSeed, d \in Plaintexts, n \in FileLens}

\* the signatures the signer may return
SignerSigs ==
    {SigText(p) : p \in [prefixed : {TRUE}, seed : {0}, upper : {FALSE},
                         len : (KeyHexLen - MaxShort)..(KeyHexLen + MaxExtra),
                         ff : {FALSE}]}

\* the signer's replies (err, sig): an error, a refusal without error, a signature
SignerReplies ==
    {[err |-> TRUE, sig |-> <<>>], [err |-> FALSE, sig |-> <<>>]}
    \cup {[err |-> FALSE, sig |-> t] : t \in SignerSigs}

Init ==
    /\ args = NoArgs
    /\ ret = NoRet
    /\ op \in [action : {"encrypt", "decrypt"}, noteSeed : 0..MaxSeed]
    /\ \E file \in (IF op.action = "encrypt" THEN Plaintexts ELSE DecryptInputs) :
          fs = [input |-> file, output |-> <<>>, outputExists |-> FALSE, open |-> {}]
    /\ pc = "start"
    /\ thrown = "none"
    /\ note = <<>>
    /\ sig = NoSig
    /\ cipher = NoCipher
    /\ prependIV = NoPrependIV
    /\ rs = NoReadStream
    /\ ws = NoWriteStream
    /\ log = <<>>

\* processFileEncryption up to the signing request
StartEncrypt ==
    /\ pc = "start"
    /\ op.action = "encrypt"
    /\ note' = generateEncryptionNote(op.noteSeed)
    /\ log' = Append(log, "Requesting signature")
    /\ pc' = "awaitingSignature"
    /\ UNCHANGED <<args, ret, op, thrown, sig, fs, cipher, prependIV, rs, ws>>

\* processFileDecryption up to the signing request
StartDecrypt ==
    /\ pc = "start"
    /\ op.action = "decrypt"
    /\ \E readFails \in BOOLEAN :
          LET n == readEncryptionNoteFromFile(fs.input, fs.open, readFails)
          IN  /\ fs' = [fs EXCEPT !.open = n.open]
              /\ IF n.ret.ok
                 THEN /\ note' = n.ret.val
                      /\ log' = Append(log, "Requesting signature")
                      /\ pc' = "awaitingSignature"
                      /\ thrown' = thrown
                 ELSE /\ pc' = "threw"
                      /\ thrown' = n.ret.err
                      /\ UNCHANGED <<note, log>>
    /\ UNCHANGED <<args, ret, op, sig, cipher, prependIV, rs, ws>>

\* the signer answers: signEncryptionNote's callback runs errorCb
\* (handleRuntimeError) or cb, the rest of processFileEncryption or
\* processFileDecryption
SignerAnswers ==
    /\ pc = "awaitingSignature"
    /\ \E reply \in SignerReplies, readFails \in BOOLEAN :
          /\ sig' = [status |-> IF reply.sig # <<>> /\ ~reply.err THEN "signed"
                                ELSE "failed",
                     text |-> reply.sig]
          /\ IF signEncryptionNote(reply) = "errorCb"
             THEN /\ log' = Append(log, "Failed")
                  /\ pc' = "signFailed"
                  /\ UNCHANGED <<thrown, fs, cipher, prependIV, rs, ws>>
             ELSE LET r == IF op.action = "encrypt"
                           THEN encryptFileAsStream(fs.open, note, reply.sig)
                           ELSE decryptFileAsStream(fs.input, fs.open, reply.sig,
                                                    readFails)
                  IN  /\ fs' = [fs EXCEPT !.open = r.open]
                      /\ rs' = r.rs
                      /\ cipher' = r.cipher
                      /\ prependIV' = r.prependIV
                      /\ ws' = r.ws
                      /\ thrown' = r.threw
                      /\ IF r.threw # "none"
                         THEN /\ pc' = "threw"
                              /\ log' = log \o <<"Done", "Processing">>
                         ELSE /\ pc' = "streaming"
                              /\ log' = log \o <<"Done", "Processing", "Done">>
    /\ UNCHANGED <<args, ret, op, note>>

\* the process runs: no uncaught exception has ended it
Running == pc \in {"awaitingSignature", "signFailed", "threw", "streaming"}

\* the read stream opens the input file
RsOpen ==
    /\ Running
    /\ rs.state = "created"
    /\ rs' = [rs EXCEPT !.state = "open"]
    /\ fs' = [fs EXCEPT !.open = @ \cup {"source"}]
    /\ UNCHANGED <<args, ret, op, pc, thrown, note, sig, cipher, prependIV, ws, log>>

\* the write stream opens the output file, creating it
WsOpen ==
    /\ Running
    /\ ws.state = "created"
    /\ ws' = [ws EXCEPT !.state = "open"]
    /\ fs' = [fs EXCEPT !.open = @ \cup {"sink"}, !.outputExists = TRUE,
                        !.output = <<>>]
    /\ UNCHANGED <<args, ret, op, pc, thrown, note, sig, cipher, prependIV, rs, log>>

\* the chunks pushed by the stage after the cipher for one cipher output
\* chunk, and that stage afterwards: the prepending transform when
\* encrypting, nothing when decrypting
Downstream(p, chunks) ==
    IF chunks = <<>> THEN [prependIV |-> p, pushed |-> <<>>]
    ELSE IF op.action = "encrypt"
    THEN LET q == PrependTransform(p, chunks[1])
         IN  [prependIV |-> q, pushed |-> SubSeq(q.out, Len(p.out) + 1, Len(q.out))]
    ELSE [prependIV |-> p, pushed |-> chunks]

\* the read stream reads a chunk of k bytes; the pipes carry it through the
\* cipher (and the prepending transform) into the write stream's buffer
RsRead ==
    /\ Running
    /\ rs.state = "open" /\ rs.piped
    /\ rs.pos < Len(fs.input)
    /\ \E k \in 1..(Len(fs.input) - rs.pos) :
          LET chunk == SubSeq(fs.input, rs.pos + 1, rs.pos + k)
              d == Downstream(prependIV, Push(CipherUpdate(cipher, chunk)))
          IN  /\ rs' = [rs EXCEPT !.pos = @ + k]
              /\ cipher' = CipherAdvance(cipher, chunk)
              /\ prependIV' = d.prependIV
              /\ ws' = [ws EXCEPT !.buf = @ \o d.pushed]
    /\ UNCHANGED <<args, ret, op, pc, thrown, note, sig, fs, log>>

\* a read fails: the read stream closes its descriptor and emits 'error',
\* which nothing handles; the pipes do not end the write stream
RsReadError ==
    /\ Running
    /\ rs.state = "open" /\ rs.piped
    /\ rs' = [rs EXCEPT !.state = "errored"]
    /\ fs' = [fs EXCEPT !.open = @ \ {"source"}]
    /\ pc' = "uncaught"
    /\ thrown' = "EIO"
    /\ UNCHANGED <<args, ret, op, note, sig, cipher, prependIV, ws, log>>

\* the read stream reaches the end of the file: it closes its descriptor,
\* the cipher is finalised and the end travels down the pipes
RsEnd ==
    /\ Running
    /\ rs.state = "open" /\ rs.piped
    /\ rs.pos >= Len(fs.input)
    /\ LET d == Downstream(prependIV, Push(CipherFinal(cipher)))
       IN  /\ prependIV' = d.prependIV
           /\ ws' = [ws EXCEPT !.buf = @ \o d.pushed, !.ending = TRUE]
    /\ rs' = [rs EXCEPT !.state = "ended"]
    /\ fs' = [fs EXCEPT !.open = @ \ {"source"}]
    /\ UNCHANGED <<args, ret, op, pc, thrown, note, sig, cipher, log>>

\* the write stream writes its first buffered chunk to the output file
WsWrite ==
    /\ Running
    /\ ws.state = "open" /\ ws.buf # <<>>
    /\ fs' = [fs EXCEPT !.output = @ \o Head(ws.buf)]
    /\ ws' = [ws EXCEPT !.buf = Tail(@)]
    /\ UNCHANGED <<args, ret, op, pc, thrown, note, sig, cipher, prependIV, rs, log>>

\* a write fails: the write stream closes its descriptor and emits 'error',
\* which nothing handles; the pipes do not close the read stream
WsWriteError ==
    /\ Running
    /\ ws.state = "open" /\ ws.buf # <<>>
    /\ ws' = [ws EXCEPT !.state = "errored"]
    /\ fs' = [fs EXCEPT !.open = @ \ {"sink"}]
    /\ pc' = "uncaught"
    /\ thrown' = "EIO"
    /\ UNCHANGED <<args, ret, op, note, sig, cipher, prependIV, rs, log>>

\* everything is written and the end has arrived: the write stream closes
WsFinish ==
    /\ Running
    /\ ws.state = "open" /\ ws.ending /\ ws.buf = <<>>
    /\ ws' = [ws EXCEPT !.state = "closed"]
    /\ fs' = [fs EXCEPT !.open = @ \ {"sink"}]
    /\ UNCHANGED <<args, ret, op, pc, thrown, note, sig, cipher, prependIV, rs, log>>

Next ==
    \/ StartEncrypt
    \/ StartDecrypt
    \/ SignerAnswers
    \/ RsOpen
    \/ WsOpen
    \/ RsRead
    \/ RsReadError
    \/ RsEnd
    \/ WsWrite
    \/ WsWriteError
    \/ WsFinish

Spec == Init /\ [][Next]_vars

----------------------------------------------------------------------------
(* Claims about the library functions, checked under SpecLib *)

\* the number of hex characters of a signature after the prefix
SigHexLen(p) == Len(SigHex(p))

\* the first 64 hex characters of a signature after the prefix
FirstKeyChars(p) == Slice(SigHex(p), 0, KeyHexLen)

LongEnough(p) == SigHexLen(p) >= KeyHexLen

\* C1: for every plaintext, note and signature with at least 64 hex
\* characters after the optional 0x prefix, encryptBytes succeeds and
\* decryptBytes of its output with the same signature returns the plaintext.
C1_RoundTrip ==
    LongEnough(args.sig) =>
        /\ ret.enc # None => ret.enc.ok
        /\ ret.dec # <<>> => ret.dec["same"] = Ok(args.data)

C1_Witness ==
    /\ LongEnough(args.sig) /\ args.sig.prefixed
    /\ Len(args.data) = MaxPlainLen
    /\ ret.dec # <<>> /\ ret.dec["same"].ok

\* C2: the output of encryptBytes is 16 + len(P) bytes long, its first 16
\* bytes are the raw note, and readEncryptionNoteFromEncryptedBytes of it
\* returns the note's hex form.
C2_Framing ==
    ret.enc.ok =>
        /\ Len(ret.enc.val) = 16 + Len(args.data)
        /\ SubSeq(ret.enc.val, 1, 16) = NoteBytes(args.noteSeed)
        /\ ret.readNote # None =>
              /\ ret.readNote.val = generateEncryptionNote(args.noteSeed)
              /\ HexDecode(ret.readNote.val) = NoteBytes(args.noteSeed)

C2_Witness ==
    /\ ret.enc.ok /\ ret.readNote.ok
    /\ Len(args.data) > 0
    /\ Len(ret.enc.val) = 16 + Len(args.data)

\* C3: signedEncryptionNoteToKey fails with MalformedKeyMaterial whenever
\* fewer than 64 hex characters remain after the prefix; it returns no key
\* shorter than 32 bytes, and no cipher is created from such a key.
C3_ShortKeyRejected ==
    /\ (ret.key # <<>> /\ ~LongEnough(args.sig)) =>
          ret.key["same"] = Throw("MalformedKeyMaterial")
    /\ ret.key # <<>> =>
          \A k \in Variants :
              ret.key[k].ok => Len(ret.key[k].val) >= ENCRYPTION_KEY_SIZE
    /\ ~LongEnough(args.sig) => ~ret.enc.ok

\* C4: for a signature with at least 64 hex characters after the prefix the
\* key is exactly 32 bytes, the decoding of the first 64 of them, the same
\* with or without the 0x prefix, and the same with "ff" appended.
C4_KeyDerivation ==
    (ret.key # <<>> /\ LongEnough(args.sig)) =>
        /\ ret.key["same"].ok
        /\ Len(ret.key["same"].val) = 32
        /\ ret.key["same"].val = SeedBytes(args.sig.seed, 32)
        /\ ret.key["prefixToggled"] = ret.key["same"]
        /\ ret.key["plusFF"] = ret.key["same"]

C4_Witness ==
    /\ ret.key # <<>> /\ args.sig.len = KeyHexLen + 1 /\ args.sig.upper
    /\ Len(ret.key["plusFF"].val) = 32

\* what C8 says of the second signature written the k-th way
WrongKeySilent(k) ==
    /\ ret.dec[k].ok
    /\ Len(ret.dec[k].val) = Len(args.data)
    /\ args.data # <<>> => ret.dec[k].val # args.data

----------------------------------------------------------------------------
(* Claims about one operation, checked under Spec *)

\* C5: no cipher exists before the signer has returned a signature, no
\* output file or write stream exists before the cipher does, and when the
\* signing request fails or is declined the error callback has run, no
\* cipher exists and no output was created.
C5_Sequencing ==
    /\ cipher # NoCipher => sig.status = "signed"
    /\ (ws.state # "none" \/ fs.outputExists \/ "sink" \in fs.open)
          => cipher # NoCipher
    /\ sig.status = "failed" =>
          /\ pc = "signFailed"
          /\ log # <<>> /\ log[Len(log)] = "Failed"
          /\ cipher = NoCipher
          /\ ws.state = "none" /\ ~fs.outputExists /\ fs.output = <<>>

C5_Witness ==
    /\ sig.status = "signed"
    /\ cipher # NoCipher
    /\ fs.outputExists /\ fs.output # <<>>

\* C6: a zero-length plaintext yields a 16-byte encrypted output, the note
\* alone; here for the streaming variant, once the output file is closed.
C6_ZeroLengthStreaming ==
    (op.action = "encrypt" /\ fs.input = <<>> /\ ws.state = "closed") =>
        fs.output = NoteBytes(op.noteSeed)

\* C7: reading the note from a file shorter than 16 bytes fails with
\* InvalidInput instead of returning a note; from a longer file it returns
\* bytes [0, 16) of the file.
C7_NoteFromFile ==
    (op.action = "decrypt" /\ pc # "start" /\ thrown # "EIO") =>
        IF Len(fs.input) < ENCRYPTION_IV_SIZE
        THEN pc = "threw" /\ thrown = "InvalidInput"
        ELSE note = HexEncode(SubSeq(fs.input, 1, ENCRYPTION_IV_SIZE))

\* C9: whatever chunks the prepending transform was given, it has pushed the
\* note once, first, and then the chunks in order and unchanged; its flag is
\* set exactly when it has been given a chunk.
C9_HeaderOnce ==
    prependIV.iv # <<>> =>
        /\ prependIV.iv = NoteBytes(op.noteSeed)
        /\ prependIV.prepended <=> prependIV.fed # <<>>
        /\ prependIV.out = IF prependIV.fed = <<>> THEN <<>>
                           ELSE <<prependIV.iv>> \o prependIV.fed

C9_Witness ==
    /\ Len(prependIV.fed) >= 2
    /\ prependIV.prepended
    /\ Len(prependIV.out) = Len(prependIV.fed) + 1

\* C10: no descriptor stays open on any exit path: none from
\* partialReadSync once it has returned or thrown, and neither the source
\* nor the sink after a read or write failure in the pipeline.
C10_HandlesReleased ==
    /\ "partialRead" \notin fs.open
    /\ pc = "uncaught" => fs.open = {}

\* the front end has printed its final "Done" and the finished banner
SuccessReported ==
    /\ Len(log) >= 2
    /\ log[Len(log) - 1] = "Processing"
    /\ log[Len(log)] = "Done"

\* the front end has printed "Failed", or an exception has reached its caller
FailureReported ==
    \/ (log # <<>> /\ log[Len(log)] = "Failed")
    \/ (pc = "threw" /\ thrown # "none")

\* the operation as its caller sees it
OpState ==
    CASE pc = "start" -> "NotePending"
      [] pc = "awaitingSignature" -> "AwaitingSignature"
      [] pc \in {"signFailed", "threw"} -> "Failed"
      [] pc = "streaming" /\ SuccessReported -> "Complete"
      [] pc = "uncaught" /\ SuccessReported -> "Complete"
      [] OTHER -> "Failed"

\* the length of the output file of a finished operation
ExpectedOutputLen ==
    IF op.action = "encrypt" THEN ENCRYPTION_IV_SIZE + Len(fs.input)
    ELSE Len(fs.input) - Min(ENCRYPTION_IV_SIZE, Len(fs.input))

\* C11: the operation is Complete, and success reported, only once the
\* streaming has consumed all the input and written it to the sink; a
\* failure during streaming reaches the caller as Failed, never after a
\* report of success.
C11_StateMachine ==
    /\ OpState = "Complete" =>
          /\ rs.state = "ended"
          /\ ws.state = "closed"
          /\ Len(fs.output) = ExpectedOutputLen
    /\ (rs.state = "errored" \/ ws.state = "errored") =>
          /\ OpState = "Failed"
          /\ FailureReported
          /\ ~SuccessReported

====
